---- MODULE Spec2Model ----
(***************************************************************************)
(* Model of the reddit-heatmap backend: the HypeCalculator                 *)
(* (hype_calculator.py), the ingestion / broadcast pipeline (main.py)      *)
(* and the ticker extractor (ticker_extractor.py).                         *)
(*                                                                         *)
(* Time is counted in units of 300 seconds.  Weights are fixed-point       *)
(* numbers in millionths, hype in hundredths (round(x, 2)), sentiment in   *)
(* thousandths (round(x, 3)), velocity in hundredths.  A text is a         *)
(* sequence of characters, a ticker symbol or an entity phrase likewise.   *)
(***************************************************************************)
EXTENDS Integers, Sequences, FiniteSets, TLC

VARIABLES
    now,                \* datetime.now(), in units of 300 s
    mentions,           \* HypeCalculator.mentions
    half_life,          \* HypeCalculator.half_life, in units of 300 s
    last_cleanup,       \* HypeCalculator._last_cleanup
    pending_mentions,   \* main.pending_mentions
    connected_clients,  \* main.connected_clients
    inflight,           \* the process_mention call suspended at its await
    stream_state,       \* the run_stream task
    client_pc,          \* where each websocket_endpoint handler stands
    bl,                 \* the broadcast_loop task
    outbox,             \* per client, the first messages sent on its connection
    seen_ids,           \* the set a caller of poll_new_posts keeps between polls
    ENTITY_TO_TICKER,   \* ticker_extractor.ENTITY_TO_TICKER, in dict order
    text,               \* the text handed to the ticker extractor
    ret                 \* what the last call returned (or how it ended)

vars == <<now, mentions, half_life, last_cleanup, pending_mentions,
          connected_clients, inflight, stream_state, client_pc,
          bl, outbox, seen_ids, ENTITY_TO_TICKER, text, ret>>

calcVars == <<mentions, half_life, last_cleanup>>

-----------------------------------------------------------------------------
(* Bounds of the model *)

MaxMentions == 2
MaxTime == 2
MaxStep == 2
MaxOutbox == 2
MaxLimit == 2
MaxTopN == 2

(* Input domains *)

Clients == {"ws1", "ws2", "ws3"}
Listeners == {"ws1"}                      \* the clients that connect
Scores == {0, 7}
StreamClasses == {"mock_stream", "reddit_stream"}
AnalyzedSentiments == {500}               \* analyze_sentiment(...)["compound"]
Tickers == {"AMD", "GME"}
TickerRank == [AMD |-> 1, GME |-> 2]      \* lexical order of the symbols
ContentTypes == {"post", "comment"}
Sentiments == {-500, 500}
TsOffsets == {-12, 0, 1}

None == [none |-> TRUE]
NoCall == [op |-> "none"]

-----------------------------------------------------------------------------
(* hype_calculator.py *)

HALF_LIFE_SECONDS == 2          \* 600 s
POST_WEIGHT == 15               \* 1.5, in tenths
COMMENT_WEIGHT == 10            \* 1.0, in tenths
CLEANUP_INTERVAL == 1           \* 300 s
MAX_AGE_MINUTES == 12           \* 60 minutes
FIVE_MINUTES == 1               \* timedelta(minutes=5)
ONE_HOUR == 12                  \* timedelta(hours=1)
TOP_N == 30                     \* get_hype_scores(top_n=30) in main.py

MentionRecord(ticker, timestamp, content_type, sentiment) ==
    [ticker |-> ticker, timestamp |-> timestamp,
     content_type |-> content_type, sentiment |-> sentiment]

HypeScore(ticker, hype, mention_count, avg_sentiment, velocity) ==
    [ticker |-> ticker, hype |-> hype, mention_count |-> mention_count,
     avg_sentiment |-> avg_sentiment, velocity |-> velocity]

RECURSIVE Pow2(_)
Pow2(n) == IF n <= 0 THEN 1 ELSE 2 * Pow2(n - 1)

\* 2^(-r/H) in millionths, for 0 <= r < H
DecayRoot == << <<1000000>>, <<1000000, 707107>>,
               <<1000000, 793701, 629961>> >>

\* the decay with the sign of the exponent lost: exp(+lambda * age)
MathExpDecay_Growth(age, hl) ==
    LET q == (-age) \div hl
        r == (-age) % hl
    IN  IF q >= 0 THEN DecayRoot[hl][r + 1] \div Pow2(q)
                  ELSE DecayRoot[hl][r + 1] * Pow2(-q)

\* math.exp(-decay_lambda * age_seconds) = 2^(-age/H), in millionths
MathExpDecay(age, hl) ==
    LET q == age \div hl
        r == age % hl
    IN  IF q >= 0 THEN DecayRoot[hl][r + 1] \div Pow2(q)
                  ELSE DecayRoot[hl][r + 1] * Pow2(-q)

\* round(n / d, .) to the nearest integer, ties to even (d > 0)
RoundDiv(n, d) ==
    LET q == n \div d
        r == n % d
    IN  IF 2 * r < d THEN q
        ELSE IF 2 * r > d THEN q + 1
        ELSE IF q % 2 = 0 THEN q ELSE q + 1

\* the weight computed with the module constant DECAY_LAMBDA in place of
\* self.decay_lambda
calculate_weight_GlobalLambda(mention, t, hl) ==
    LET age_seconds == t - mention.timestamp
        base_weight == IF mention.content_type = "post" THEN POST_WEIGHT
                                                        ELSE COMMENT_WEIGHT
        decay_factor == MathExpDecay(age_seconds, HALF_LIFE_SECONDS)
    IN  (base_weight * decay_factor) \div 10

calculate_weight(mention, t, hl) ==
    LET age_seconds == t - mention.timestamp
        base_weight == IF mention.content_type = "post" THEN POST_WEIGHT
                                                        ELSE COMMENT_WEIGHT
        decay_factor == MathExpDecay(age_seconds, hl)
    IN  (base_weight * decay_factor) \div 10

cleanup_old_mentions(ms, t) ==
    LET cutoff == t - MAX_AGE_MINUTES
    IN  SelectSeq(ms, LAMBDA m : m.timestamp > cutoff)

add_mention_PruneFirst(ms, lc, t, rec) ==
    IF t - lc > CLEANUP_INTERVAL
    THEN [mentions |-> Append(cleanup_old_mentions(ms, t), rec), last_cleanup |-> t]
    ELSE [mentions |-> Append(ms, rec), last_cleanup |-> lc]

\* HypeCalculator.add_mention: the window and _last_cleanup after the call
add_mention(ms, lc, t, rec) ==
    LET appended == Append(ms, rec)
    IN  IF t - lc > CLEANUP_INTERVAL
        THEN [mentions |-> cleanup_old_mentions(appended, t), last_cleanup |-> t]
        ELSE [mentions |-> appended, last_cleanup |-> lc]

EmptyTickerData == [total_weight |-> 0, sentiment_sum |-> 0, count |-> 0,
                    recent_count |-> 0]

\* the loop over self.mentions of get_hype_scores; order is the insertion
\* order of the keys of ticker_data
RECURSIVE AggregateByTicker(_, _, _, _, _, _)
AggregateByTicker(ms, i, t, hl, order, data) ==
    IF i > Len(ms) THEN [order |-> order, data |-> data]
    ELSE LET mention == ms[i]
             weight == calculate_weight(mention, t, hl)
             seen == \E k \in 1..Len(order) : order[k] = mention.ticker
             old == data[mention.ticker]
             new == [total_weight |-> old.total_weight + weight,
                     sentiment_sum |-> old.sentiment_sum + mention.sentiment,
                     count |-> old.count + 1,
                     recent_count |-> IF mention.timestamp > t - FIVE_MINUTES
                                      THEN old.recent_count + 1
                                      ELSE old.recent_count]
         IN  AggregateByTicker(ms, i + 1, t, hl,
                               IF seen THEN order ELSE Append(order, mention.ticker),
                               [data EXCEPT ![mention.ticker] = new])

\* the entry built with the 5-minute count in place of the record count
BuildScore_RecentCount(ticker, d) ==
    HypeScore(ticker, RoundDiv(d.total_weight, 10000), d.recent_count,
              RoundDiv(d.sentiment_sum, d.count), d.recent_count * 20)

BuildScore(ticker, d) ==
    HypeScore(ticker, RoundDiv(d.total_weight, 10000), d.count,
              RoundDiv(d.sentiment_sum, d.count), d.recent_count * 20)

\* the sort without reverse=True
RECURSIVE InsertByHype_Ascending(_, _)
InsertByHype_Ascending(sorted, x) ==
    IF sorted = <<>> THEN <<x>>
    ELSE IF Head(sorted).hype <= x.hype
         THEN <<Head(sorted)>> \o InsertByHype_Ascending(Tail(sorted), x)
         ELSE <<x>> \o sorted

\* list.sort(key=hype, reverse=True): stable, equal keys keep their order
RECURSIVE InsertByHype(_, _)
InsertByHype(sorted, x) ==
    IF sorted = <<>> THEN <<x>>
    ELSE IF Head(sorted).hype >= x.hype
         THEN <<Head(sorted)>> \o InsertByHype(Tail(sorted), x)
         ELSE <<x>> \o sorted

RECURSIVE SortByHype(_)
SortByHype(s) ==
    IF s = <<>> THEN <<>>
    ELSE InsertByHype(SortByHype(SubSeq(s, 1, Len(s) - 1)), s[Len(s)])

Truncate(s, top_n) == SubSeq(s, 1, IF top_n < Len(s) THEN top_n ELSE Len(s))

get_hype_scores(ms, t, hl, top_n) ==
    LET agg == AggregateByTicker(ms, 1, t, hl, <<>>,
                                 [k \in Tickers |-> EmptyTickerData])
        scores == [k \in 1..Len(agg.order) |->
                      BuildScore(agg.order[k], agg.data[agg.order[k]])]
    IN  Truncate(SortByHype(scores), top_n)

RECURSIVE TickerLoop(_, _, _, _, _, _)
TickerLoop(ms, i, t, hl, ticker, acc) ==
    IF i > Len(ms) THEN acc
    ELSE IF ms[i].ticker # ticker THEN TickerLoop(ms, i + 1, t, hl, ticker, acc)
    ELSE TickerLoop(ms, i + 1, t, hl, ticker,
            [total_weight |-> acc.total_weight + calculate_weight(ms[i], t, hl),
             sentiment_sum |-> acc.sentiment_sum + ms[i].sentiment,
             count |-> acc.count + 1,
             recent_count |-> IF ms[i].timestamp > t - FIVE_MINUTES
                              THEN acc.recent_count + 1 ELSE acc.recent_count])

\* a zero-valued score returned for a ticker without records
get_ticker_hype_ZeroScore(ms, t, hl, ticker) ==
    LET acc == TickerLoop(ms, 1, t, hl, ticker, EmptyTickerData)
    IN  IF acc.count = 0 THEN HypeScore(ticker, 0, 0, 0, 0)
        ELSE HypeScore(ticker, RoundDiv(acc.total_weight, 10000), acc.count,
                       RoundDiv(acc.sentiment_sum, acc.count),
                       acc.recent_count * 20)

get_ticker_hype(ms, t, hl, ticker) ==
    LET acc == TickerLoop(ms, 1, t, hl, ticker, EmptyTickerData)
    IN  IF acc.count = 0 THEN None
        ELSE HypeScore(ticker, RoundDiv(acc.total_weight, 10000), acc.count,
                       RoundDiv(acc.sentiment_sum, acc.count),
                       acc.recent_count * 20)

\* the statistics with the distinct tickers counted over the last five
\* minutes only
get_stats_UniqueOfRecent(ms, t) ==
    LET recent == SelectSeq(ms, LAMBDA m : m.timestamp > t - FIVE_MINUTES)
        hourly == SelectSeq(ms, LAMBDA m : m.timestamp > t - ONE_HOUR)
        unique == {recent[i].ticker : i \in 1..Len(recent)}
    IN  [total_mentions |-> Len(ms),
         unique_tickers |-> Cardinality(unique),
         mentions_last_5min |-> Len(recent),
         mentions_last_hour |-> Len(hourly),
         velocity |-> Len(recent) * 20]

get_stats(ms, t) ==
    LET recent == SelectSeq(ms, LAMBDA m : m.timestamp > t - FIVE_MINUTES)
        hourly == SelectSeq(ms, LAMBDA m : m.timestamp > t - ONE_HOUR)
        unique == {ms[i].ticker : i \in 1..Len(ms)}
    IN  [total_mentions |-> Len(ms),
         unique_tickers |-> Cardinality(unique),
         mentions_last_5min |-> Len(recent),
         mentions_last_hour |-> Len(hourly),
         velocity |-> Len(recent) * 20]

-----------------------------------------------------------------------------
(* The HypeCalculator driven directly through its public methods *)

PipelineIdle ==
    /\ pending_mentions = <<>>
    /\ connected_clients = {}
    /\ inflight = None
    /\ stream_state = "running"
    /\ client_pc = [c \in Clients |-> "closed"]
    /\ bl = [pc |-> "sleep"]
    /\ outbox = [c \in Clients |-> <<>>]
    /\ seen_ids = {}

\* HypeCalculator.__init__
InitCalc ==
    /\ now = 0
    /\ mentions = <<>>
    /\ half_life = HALF_LIFE_SECONDS
    /\ last_cleanup = 0
    /\ PipelineIdle
    /\ ENTITY_TO_TICKER = <<>>
    /\ text = <<>>
    /\ ret = NoCall

pipelineVars == <<pending_mentions, connected_clients, inflight, stream_state,
                  client_pc, bl>>

CalcAddMention(ticker, content_type, sentiment, off) ==
    /\ Len(mentions) < MaxMentions
    /\ LET rec == MentionRecord(ticker, now + off, content_type, sentiment)
           after == add_mention(mentions, last_cleanup, now, rec)
       IN  /\ mentions' = after.mentions
           /\ last_cleanup' = after.last_cleanup
           /\ ret' = [op |-> "add_mention", rec |-> rec]
    /\ UNCHANGED <<ENTITY_TO_TICKER, text, seen_ids, outbox, now, half_life, pipelineVars>>

CalcGetHypeScores(top_n) ==
    /\ ret' = [op |-> "get_hype_scores", top_n |-> top_n,
               value |-> get_hype_scores(mentions, now, half_life, top_n)]
    /\ UNCHANGED <<ENTITY_TO_TICKER, text, seen_ids, outbox, now, calcVars, pipelineVars>>

CalcGetTickerHype(ticker) ==
    /\ ret' = [op |-> "get_ticker_hype", ticker |-> ticker,
               value |-> get_ticker_hype(mentions, now, half_life, ticker)]
    /\ UNCHANGED <<ENTITY_TO_TICKER, text, seen_ids, outbox, now, calcVars, pipelineVars>>

CalcGetStats ==
    /\ ret' = [op |-> "get_stats", value |-> get_stats(mentions, now)]
    /\ UNCHANGED <<ENTITY_TO_TICKER, text, seen_ids, outbox, now, calcVars, pipelineVars>>

\* the clock moves on between two calls
CalcAdvance(d) ==
    /\ now + d <= MaxTime
    /\ now' = now + d
    /\ ret' = [op |-> "advance", from |-> now]
    /\ UNCHANGED <<ENTITY_TO_TICKER, text, seen_ids, outbox, calcVars, pipelineVars>>

NextCalc ==
    \/ \E ticker \in Tickers, content_type \in ContentTypes,
          sentiment \in Sentiments, off \in TsOffsets :
            CalcAddMention(ticker, content_type, sentiment, off)
    \/ \E top_n \in 0..MaxTopN : CalcGetHypeScores(top_n)
    \/ \E ticker \in Tickers : CalcGetTickerHype(ticker)
    \/ CalcGetStats
    \/ \E d \in 1..MaxStep : CalcAdvance(d)

SpecCalc == InitCalc /\ [][NextCalc]_vars

-----------------------------------------------------------------------------
(* HypeCalculator(half_life_seconds=H): calculators built with a half-life
   other than the default *)

MaxDecayTime == 6
HalfLives == {1, 2, 3}                    \* 300 s, 600 s, 900 s

\* HypeCalculator.__init__(half_life_seconds)
InitDecay ==
    /\ now = 0
    /\ mentions = <<>>
    /\ half_life \in HalfLives
    /\ last_cleanup = 0
    /\ PipelineIdle
    /\ ENTITY_TO_TICKER = <<>>
    /\ text = <<>>
    /\ ret = NoCall

DecayAdvance(d) ==
    /\ now + d <= MaxDecayTime
    /\ now' = now + d
    /\ ret' = [op |-> "advance", from |-> now]
    /\ UNCHANGED <<ENTITY_TO_TICKER, text, seen_ids, outbox, calcVars, pipelineVars>>

NextDecay ==
    \/ \E ticker \in Tickers, content_type \in ContentTypes,
          sentiment \in AnalyzedSentiments :
            CalcAddMention(ticker, content_type, sentiment, 0)
    \/ CalcGetHypeScores(TOP_N)
    \/ \E d \in 1..MaxStep : DecayAdvance(d)

SpecDecay == InitDecay /\ [][NextDecay]_vars

-----------------------------------------------------------------------------
(* HypeCalculator.add_mention called with any float as sentiment *)

SENTIMENT_MIN == -1000          \* "Sentiment score (-1 to 1)", in thousandths
SENTIMENT_MAX == 1000
AnySentiments == {-2500, -1000, 500, 1500}

NextAnySentiment ==
    \/ \E ticker \in Tickers, content_type \in ContentTypes,
          sentiment \in AnySentiments :
            CalcAddMention(ticker, content_type, sentiment, 0)
    \/ CalcGetHypeScores(TOP_N)

SpecAnySentiment == InitCalc /\ [][NextAnySentiment]_vars

-----------------------------------------------------------------------------
(* main.py: ingestion, the pending batch and the broadcast loop *)

\* models.RedditMention: the dataclass with the score field (default 0)
ModelsMention(ticker, content_type, sentiment, created_at, score) ==
    [cls |-> "models", ticker |-> ticker, content_type |-> content_type,
     sentiment |-> sentiment, created_at |-> created_at, score |-> score]

\* mock_stream.RedditMention and reddit_stream.RedditMention: the dataclasses
\* the streams instantiate; they declare no score field
StreamMention(cls, ticker, content_type, sentiment, created_at) ==
    [cls |-> cls, ticker |-> ticker, content_type |-> content_type,
     sentiment |-> sentiment, created_at |-> created_at]

HasAttr(obj, name) == name \in DOMAIN obj

\* process_mention up to its await: hype_calculator.add_mention, then the
\* storage write is awaited
ProcessMentionStart(mention, via) ==
    /\ inflight = None
    /\ Len(mentions) < MaxMentions
    /\ LET rec == MentionRecord(mention.ticker, mention.created_at,
                                mention.content_type, mention.sentiment)
           after == add_mention(mentions, last_cleanup, now, rec)
       IN  /\ mentions' = after.mentions
           /\ last_cleanup' = after.last_cleanup
    /\ inflight' = [mention |-> mention, via |-> via]
    /\ ret' = [op |-> "await_storage"]
    /\ UNCHANGED <<ENTITY_TO_TICKER, text, seen_ids, outbox, now, half_life, pending_mentions, connected_clients,
                   stream_state, client_pc, bl>>

\* run_stream: the stream yields a mention and process_mention is awaited
StreamYield(mention) ==
    /\ stream_state = "running"
    /\ ProcessMentionStart(mention, "stream")

\* process_mention awaited by another caller, with a models.RedditMention
CallProcessMention(mention) ==
    ProcessMentionStart(mention, "call")

mention_data(mention) ==
    [ticker |-> mention.ticker, sentiment |-> mention.sentiment,
     content_type |-> mention.content_type, timestamp |-> mention.created_at,
     score |-> mention.score]

\* process_mention from the return of the storage write to its end; an
\* exception leaves through run_stream's except clause, which ends the stream
ProcessMentionResume(db_ok) ==
    /\ inflight # None
    /\ LET mention == inflight.mention
           outcome == IF ~db_ok THEN "storage_error"
                      ELSE IF ~HasAttr(mention, "score") THEN "AttributeError"
                      ELSE "ok"
       IN  /\ pending_mentions' =
                 IF outcome = "ok"
                 THEN Append(pending_mentions, mention_data(mention))
                 ELSE pending_mentions
           /\ stream_state' =
                 IF outcome # "ok" /\ inflight.via = "stream"
                 THEN "stopped" ELSE stream_state
           /\ ret' = [op |-> "process_mention", outcome |-> outcome]
    /\ inflight' = None
    /\ UNCHANGED <<ENTITY_TO_TICKER, text, seen_ids, outbox, now, calcVars, connected_clients, client_pc, bl>>

\* the selection keeping the last of several maximal elements
RECURSIVE MaxByScore_LastMax(_, _, _)
MaxByScore_LastMax(batch, i, best) ==
    IF i > Len(batch) THEN best
    ELSE MaxByScore_LastMax(batch, i + 1,
                    IF batch[i].score >= best.score THEN batch[i] ELSE best)

\* max(pending_mentions, key=lambda m: m["score"]): the first maximal element
RECURSIVE MaxByScore(_, _, _)
MaxByScore(batch, i, best) ==
    IF i > Len(batch) THEN best
    ELSE MaxByScore(batch, i + 1,
                    IF batch[i].score > best.score THEN batch[i] ELSE best)

\* max() of an empty list raises ValueError
max_by_score(batch) ==
    IF batch = <<>> THEN [error |-> "ValueError"]
    ELSE MaxByScore(batch, 2, batch[1])

Heatmap(scores) ==
    [k \in 1..Len(scores) |->
        [ticker |-> scores[k].ticker, hype |-> scores[k].hype,
         sentiment |-> scores[k].avg_sentiment,
         mentions |-> scores[k].mention_count,
         velocity |-> scores[k].velocity]]

\* the payload with the latest key always set, None for an empty batch
UpdateData_AlwaysLatest(ms, t, hl, batch) ==
    LET hype_scores == get_hype_scores(ms, t, hl, TOP_N)
    IN  [heatmap |-> Heatmap(hype_scores), stats |-> get_stats(ms, t),
         latest |-> IF batch # <<>> THEN max_by_score(batch) ELSE None]

\* the update_data payload of one broadcast tick; the latest key exists only
\* when the batch is not empty
UpdateData(ms, t, hl, batch) ==
    LET hype_scores == get_hype_scores(ms, t, hl, TOP_N)
        base == [heatmap |-> Heatmap(hype_scores), stats |-> get_stats(ms, t)]
    IN  IF batch # <<>>
        THEN [heatmap |-> base.heatmap, stats |-> base.stats,
              latest |-> max_by_score(batch)]
        ELSE base

\* client.send_text(json.dumps({"type": type, ...})) is called: the message
\* joins what is sent on the client's connection (the first MaxOutbox
\* messages are kept)
SendText(box, client, type) ==
    [box EXCEPT ![client] = IF Len(@) < MaxOutbox THEN Append(@, type) ELSE @]

\* the init_data payload of websocket_endpoint: no latest key
InitData(ms, t, hl) ==
    LET hype_scores == get_hype_scores(ms, t, hl, TOP_N)
    IN  [heatmap |-> Heatmap(hype_scores), stats |-> get_stats(ms, t)]

\* the tick whose selection was made before the last entry of the batch was
\* appended: an append landing between the selection and the clear
BroadcastTick_LateAppend ==
    /\ bl.pc = "sleep"
    /\ pending_mentions' = <<>>
    /\ IF connected_clients = {}
       THEN /\ bl' = bl
            /\ ret' = [op |-> "tick", sent |-> FALSE,
                       batch |-> pending_mentions]
       ELSE LET data == UpdateData(mentions, now, half_life,
                                   SubSeq(pending_mentions, 1,
                                          Len(pending_mentions) - 1))
                message == [type |-> "update", data |-> data]
            IN  /\ \E first \in connected_clients :
                      bl' = [pc |-> "send", message |-> message,
                             start |-> connected_clients,
                             size |-> Cardinality(connected_clients),
                             visited |-> {}, cur |-> first,
                             disconnected |-> {}]
                /\ ret' = [op |-> "tick", sent |-> TRUE,
                           batch |-> pending_mentions]
    /\ outbox' = IF connected_clients = {} THEN outbox
                  ELSE SendText(outbox, bl'.cur, "update")
    /\ UNCHANGED <<ENTITY_TO_TICKER, text, seen_ids, now, calcVars, connected_clients, inflight,
                   stream_state, client_pc>>

\* the tick that skips the clear when no client is connected
BroadcastTick_KeepsBatchWithoutListeners ==
    /\ bl.pc = "sleep"
    /\ pending_mentions' =
          IF connected_clients = {} THEN pending_mentions ELSE <<>>
    /\ IF connected_clients = {}
       THEN /\ bl' = bl
            /\ ret' = [op |-> "tick", sent |-> FALSE,
                       batch |-> pending_mentions]
       ELSE LET data == UpdateData(mentions, now, half_life, pending_mentions)
                message == [type |-> "update", data |-> data]
            IN  /\ \E first \in connected_clients :
                      bl' = [pc |-> "send", message |-> message,
                             start |-> connected_clients,
                             size |-> Cardinality(connected_clients),
                             visited |-> {}, cur |-> first,
                             disconnected |-> {}]
                /\ ret' = [op |-> "tick", sent |-> TRUE,
                           batch |-> pending_mentions]
    /\ outbox' = IF connected_clients = {} THEN outbox
                  ELSE SendText(outbox, bl'.cur, "update")
    /\ UNCHANGED <<ENTITY_TO_TICKER, text, seen_ids, now, calcVars, connected_clients, inflight,
                   stream_state, client_pc>>

\* the tick that clears the record window together with the batch
BroadcastTick_ResetsWindow ==
    /\ bl.pc = "sleep"
    /\ pending_mentions' = <<>>
    /\ IF connected_clients = {}
       THEN /\ bl' = bl
            /\ ret' = [op |-> "tick", sent |-> FALSE,
                       batch |-> pending_mentions]
       ELSE LET data == UpdateData(mentions, now, half_life, pending_mentions)
                message == [type |-> "update", data |-> data]
            IN  /\ \E first \in connected_clients :
                      bl' = [pc |-> "send", message |-> message,
                             start |-> connected_clients,
                             size |-> Cardinality(connected_clients),
                             visited |-> {}, cur |-> first,
                             disconnected |-> {}]
                /\ ret' = [op |-> "tick", sent |-> TRUE,
                           batch |-> pending_mentions]
    /\ mentions' = <<>>
    /\ outbox' = IF connected_clients = {} THEN outbox
                  ELSE SendText(outbox, bl'.cur, "update")
    /\ UNCHANGED <<ENTITY_TO_TICKER, text, seen_ids, now, half_life, last_cleanup, connected_clients, inflight,
                   stream_state, client_pc>>

\* one pass of broadcast_loop from the end of the sleep to the first await of
\* broadcast_update
BroadcastTick ==
    /\ bl.pc = "sleep"
    /\ pending_mentions' = <<>>
    /\ IF connected_clients = {}
       THEN /\ bl' = bl
            /\ ret' = [op |-> "tick", sent |-> FALSE,
                       batch |-> pending_mentions]
       ELSE LET data == UpdateData(mentions, now, half_life, pending_mentions)
                message == [type |-> "update", data |-> data]
            IN  /\ \E first \in connected_clients :
                      bl' = [pc |-> "send", message |-> message,
                             start |-> connected_clients,
                             size |-> Cardinality(connected_clients),
                             visited |-> {}, cur |-> first,
                             disconnected |-> {}]
                /\ ret' = [op |-> "tick", sent |-> TRUE,
                           batch |-> pending_mentions]
    /\ outbox' = IF connected_clients = {} THEN outbox
                  ELSE SendText(outbox, bl'.cur, "update")
    /\ UNCHANGED <<ENTITY_TO_TICKER, text, seen_ids, now, calcVars, connected_clients, inflight,
                   stream_state, client_pc>>

\* broadcast_update: the send to bl.cur returns or raises, then the for loop
\* asks the set iterator for the next client
BroadcastSendReturns(ok) ==
    /\ bl.pc = "send"
    /\ LET visited == bl.visited \cup {bl.cur}
           disconnected == IF ok THEN bl.disconnected
                           ELSE bl.disconnected \cup {bl.cur}
           rest == connected_clients \ visited
       IN  IF Cardinality(connected_clients) # bl.size
           THEN \* RuntimeError: Set changed size during iteration
                /\ bl' = [pc |-> "dead"]
                /\ connected_clients' = connected_clients
                /\ ret' = [op |-> "broadcast_update",
                           outcome |-> "RuntimeError", start |-> bl.start,
                           delivered |-> visited \ disconnected,
                           failed |-> disconnected]
           ELSE IF rest # {}
           THEN /\ \E next \in rest :
                      bl' = [bl EXCEPT !.visited = visited, !.cur = next,
                                       !.disconnected = disconnected]
                /\ connected_clients' = connected_clients
                /\ ret' = NoCall
           ELSE /\ bl' = [pc |-> "sleep"]
                /\ connected_clients' = connected_clients \ disconnected
                /\ ret' = [op |-> "broadcast_update", outcome |-> "ok",
                           start |-> bl.start,
                           delivered |-> visited \ disconnected,
                           failed |-> disconnected]
    /\ outbox' = IF bl'.pc = "send" THEN SendText(outbox, bl'.cur, "update")
                  ELSE outbox
    /\ UNCHANGED <<ENTITY_TO_TICKER, text, seen_ids, now, calcVars, pending_mentions, inflight,
                   stream_state, client_pc>>

\* the handler that registers the client and waits before it sends init
WebsocketConnect_InitLater(c) ==
    /\ client_pc[c] = "closed"
    /\ c \notin connected_clients
    /\ connected_clients' = connected_clients \cup {c}
    /\ client_pc' = [client_pc EXCEPT ![c] = "init"]
    /\ outbox' = [outbox EXCEPT ![c] = <<>>]
    /\ ret' = NoCall
    /\ UNCHANGED <<ENTITY_TO_TICKER, text, seen_ids, now, calcVars, pending_mentions, inflight, stream_state, bl>>

\* websocket_endpoint up to its second await: accept returned, the client is
\* registered, init_data is built and send_text of the init message is called
\* on the new connection
WebsocketConnect(c) ==
    /\ client_pc[c] = "closed"
    /\ c \notin connected_clients
    /\ connected_clients' = connected_clients \cup {c}
    /\ client_pc' = [client_pc EXCEPT ![c] = "init"]
    /\ outbox' = SendText([outbox EXCEPT ![c] = <<>>], c, "init")
    /\ ret' = [op |-> "init", client |-> c,
               message |-> [type |-> "init",
                            data |-> InitData(mentions, now, half_life)]]
    /\ UNCHANGED <<ENTITY_TO_TICKER, text, seen_ids, now, calcVars, pending_mentions, inflight, stream_state, bl>>

\* websocket_endpoint: the init message is sent, the receive loop starts
WebsocketInitSent(c) ==
    /\ client_pc[c] = "init"
    /\ client_pc' = [client_pc EXCEPT ![c] = "receive"]
    /\ ret' = NoCall
    /\ UNCHANGED <<ENTITY_TO_TICKER, text, seen_ids, outbox, now, calcVars, pending_mentions, connected_clients, inflight,
                   stream_state, bl>>

\* websocket_endpoint: receive_text raises, the client is discarded
WebsocketDisconnect(c) ==
    /\ client_pc[c] = "receive"
    /\ connected_clients' = connected_clients \ {c}
    /\ client_pc' = [client_pc EXCEPT ![c] = "closed"]
    /\ outbox' = [outbox EXCEPT ![c] = <<>>]
    /\ ret' = NoCall
    /\ UNCHANGED <<ENTITY_TO_TICKER, text, seen_ids, now, calcVars, pending_mentions, inflight, stream_state, bl>>

Advance(d) ==
    /\ now + d <= MaxTime
    /\ now' = now + d
    /\ ret' = NoCall
    /\ UNCHANGED <<ENTITY_TO_TICKER, text, seen_ids, outbox, calcVars, pipelineVars>>

\* the state reset_state leaves at startup
Init == InitCalc

Next ==
    \/ \E cls \in StreamClasses, ticker \in Tickers,
          content_type \in ContentTypes, sentiment \in AnalyzedSentiments :
            StreamYield(StreamMention(cls, ticker, content_type, sentiment, now))
    \/ \E ticker \in Tickers, content_type \in ContentTypes,
          sentiment \in AnalyzedSentiments, score \in Scores :
            CallProcessMention(ModelsMention(ticker, content_type, sentiment,
                                             now, score))
    \/ \E db_ok \in BOOLEAN : ProcessMentionResume(db_ok)
    \/ BroadcastTick
    \/ \E ok \in BOOLEAN : BroadcastSendReturns(ok)
    \/ \E c \in Listeners : WebsocketConnect(c)
    \/ \E c \in Listeners : WebsocketInitSent(c)
    \/ \E c \in Listeners : WebsocketDisconnect(c)
    \/ \E d \in 1..MaxStep : Advance(d)

Spec == Init /\ [][Next]_vars

-----------------------------------------------------------------------------
(* main.py: the broadcast loop with several websocket clients coming and
   going, no ingestion *)

NextListeners ==
    \/ BroadcastTick
    \/ \E ok \in BOOLEAN : BroadcastSendReturns(ok)
    \/ \E c \in Clients : WebsocketConnect(c)
    \/ \E c \in Clients : WebsocketInitSent(c)
    \/ \E c \in Clients : WebsocketDisconnect(c)

SpecListeners == Init /\ [][NextListeners]_vars

-----------------------------------------------------------------------------
(* main.py: shutdown (lifespan cancels the two tasks) and GET /api/stats,
   interleaved with ingestion and the broadcast loop *)

\* the cancellation that also runs reset_state
CancelStream_ResetsState ==
    /\ stream_state = "running"
    /\ stream_state' = "cancelled"
    /\ inflight' = IF inflight # None /\ inflight.via = "stream"
                   THEN None ELSE inflight
    /\ mentions' = <<>>
    /\ pending_mentions' = <<>>
    /\ ret' = [op |-> "cancel", task |-> "stream"]
    /\ UNCHANGED <<ENTITY_TO_TICKER, text, seen_ids, outbox, now, half_life, last_cleanup, connected_clients,
                   client_pc, bl>>

\* lifespan: stream_task.cancel(); CancelledError is raised at the await the
\* task is suspended at (the stream's sleep, or the storage write inside
\* process_mention) and is not caught by run_stream's except Exception
CancelStream ==
    /\ stream_state = "running"
    /\ stream_state' = "cancelled"
    /\ inflight' = IF inflight # None /\ inflight.via = "stream"
                   THEN None ELSE inflight
    /\ ret' = [op |-> "cancel", task |-> "stream"]
    /\ UNCHANGED <<ENTITY_TO_TICKER, text, seen_ids, outbox, now, calcVars, pending_mentions, connected_clients,
                   client_pc, bl>>

\* lifespan: broadcast_task.cancel(); the task is suspended at its sleep or
\* at a send_text of broadcast_update
CancelBroadcast ==
    /\ bl.pc \in {"sleep", "send"}
    /\ bl' = [pc |-> "cancelled"]
    /\ ret' = [op |-> "cancel", task |-> "broadcast"]
    /\ UNCHANGED <<ENTITY_TO_TICKER, text, seen_ids, outbox, now, calcVars, pending_mentions, connected_clients,
                   inflight, stream_state, client_pc>>

\* the handler reading the snapshot from a window that lacks the newest
\* record and the statistics from the whole window
ApiGetStats_TornRead ==
    /\ ret' = [op |-> "api_stats",
               hype_scores |->
                   Heatmap(get_hype_scores(
                       SubSeq(mentions, 1, Len(mentions) - 1),
                       now, half_life, TOP_N)),
               stats |-> get_stats(mentions, now)]
    /\ UNCHANGED <<ENTITY_TO_TICKER, text, seen_ids, outbox, now, calcVars, pipelineVars>>

\* GET /api/stats: get_hype_scores(top_n=30) and get_stats() in one
\* handler without await
ApiGetStats ==
    /\ ret' = [op |-> "api_stats",
               hype_scores |->
                   Heatmap(get_hype_scores(mentions, now, half_life, TOP_N)),
               stats |-> get_stats(mentions, now)]
    /\ UNCHANGED <<ENTITY_TO_TICKER, text, seen_ids, outbox, now, calcVars, pipelineVars>>

NextShutdown ==
    \/ \E cls \in StreamClasses, ticker \in Tickers,
          content_type \in ContentTypes, sentiment \in AnalyzedSentiments :
            StreamYield(StreamMention(cls, ticker, content_type, sentiment, now))
    \/ \E ticker \in Tickers, content_type \in ContentTypes,
          sentiment \in AnalyzedSentiments, score \in Scores :
            CallProcessMention(ModelsMention(ticker, content_type, sentiment,
                                             now, score))
    \/ \E db_ok \in BOOLEAN : ProcessMentionResume(db_ok)
    \/ BroadcastTick
    \/ \E ok \in BOOLEAN : BroadcastSendReturns(ok)
    \/ \E c \in Listeners : WebsocketConnect(c)
    \/ CancelStream
    \/ CancelBroadcast
    \/ ApiGetStats

SpecShutdown == Init /\ [][NextShutdown]_vars

-----------------------------------------------------------------------------
(* ticker_extractor.py *)

MaxTextLen == 5

Alphabet == {"$", "A", "B", "a", " "}
Texts == UNION {[1..n -> Alphabet] : n \in 0..MaxTextLen}

SymAB == <<"A", "B">>
SymBA == <<"B", "A">>
SymB == <<"B">>
SymAA == <<"A", "A">>
SymBB == <<"B", "B">>

\* tickers.json: a symbol of one letter, one that is also an excluded word,
\* an excluded word that is no ticker
VALID_TICKERS == {SymAB, SymBA, SymB}
EXCLUDED_WORDS == {SymBA, SymAA}

\* entity_mappings.json: two phrases for one ticker, one of them of two
\* words and with a capital, and a phrase for the excluded symbol
EntityMappingsVetted ==
    <<[ticker |-> SymAB, names |-> << <<"a", "a">>, <<"A", " ", "b">> >>,
       people |-> <<>>, products |-> <<>>],
      [ticker |-> SymBA, names |-> <<>>,
       people |-> << <<"b", " ", "a">> >>, products |-> <<>>]>>

\* entity_mappings.json with one more entry, for a symbol tickers.json
\* does not list
EntityMappingsUnknownTicker ==
    EntityMappingsVetted \o
        <<[ticker |-> SymBB, names |-> <<>>, people |-> <<>>,
           products |-> << <<"b", "b">> >>]>>

EntityMappingFiles == {EntityMappingsVetted, EntityMappingsUnknownTicker}

CASHTAG_MIN == 1                \* \$([A-Z]{1,5})\b
CASHTAG_MAX == 5
STANDALONE_MIN == 2             \* \b([A-Z]{2,5})\b
STANDALONE_MAX == 5

IsUpper(c) == c \in {"A", "B"}                  \* [A-Z]
IsWordChar(c) == c \in {"A", "B", "a", "b"}     \* \w

\* str.lower()
LowerChar(c) == IF c = "A" THEN "a" ELSE IF c = "B" THEN "b" ELSE c
Lower(t) == [i \in 1..Len(t) |-> LowerChar(t[i])]

\* \b between t[p] and t[p + 1]; outside the text counts as a non-word
WordAt(t, p) == p \in 1..Len(t) /\ IsWordChar(t[p])
Boundary(t, p) == WordAt(t, p) # WordAt(t, p + 1)

\* [A-Z]{lo,hi}\b tried at position i: the greedy quantifier takes the
\* longest run and gives letters back until \b holds; 0 when it cannot match
UpperRun(t, i, n) == \A k \in i..(i + n - 1) : k <= Len(t) /\ IsUpper(t[k])
RECURSIVE Backtrack(_, _, _, _)
Backtrack(t, i, n, lo) ==
    IF n < lo THEN 0
    ELSE IF UpperRun(t, i, n) /\ Boundary(t, i + n - 1) THEN n
    ELSE Backtrack(t, i, n - 1, lo)

\* CASHTAG_PATTERN.finditer(text): group(1) of the successive matches
RECURSIVE CashtagFindIter(_, _)
CashtagFindIter(t, pos) ==
    IF pos > Len(t) THEN <<>>
    ELSE LET n == IF t[pos] = "$"
                  THEN Backtrack(t, pos + 1, CASHTAG_MAX, CASHTAG_MIN) ELSE 0
         IN  IF n > 0
             THEN <<SubSeq(t, pos + 1, pos + n)>>
                      \o CashtagFindIter(t, pos + n + 1)
             ELSE CashtagFindIter(t, pos + 1)

\* STANDALONE_PATTERN.finditer(text)
RECURSIVE StandaloneFindIter(_, _)
StandaloneFindIter(t, pos) ==
    IF pos > Len(t) THEN <<>>
    ELSE LET n == IF Boundary(t, pos - 1)
                  THEN Backtrack(t, pos, STANDALONE_MAX, STANDALONE_MIN) ELSE 0
         IN  IF n > 0
             THEN <<SubSeq(t, pos, pos + n - 1)>>
                      \o StandaloneFindIter(t, pos + n)
             ELSE StandaloneFindIter(t, pos + 1)

\* the search without the word boundaries: re.search(re.escape(entity), ...)
EntitySearch_Substring(entity, text_lower) ==
    \E p \in 1..Len(text_lower) :
        /\ p + Len(entity) - 1 <= Len(text_lower)
        /\ SubSeq(text_lower, p, p + Len(entity) - 1) = entity

\* re.search(rf'\b{re.escape(entity)}\b', text_lower)
EntitySearch(entity, text_lower) ==
    \E p \in 1..Len(text_lower) :
        /\ p + Len(entity) - 1 <= Len(text_lower)
        /\ Boundary(text_lower, p - 1)
        /\ SubSeq(text_lower, p, p + Len(entity) - 1) = entity
        /\ Boundary(text_lower, p + Len(entity) - 1)

Range(s) == {s[i] : i \in 1..Len(s)}

\* ENTITY_TO_TICKER[key] = ticker: a key already present keeps its place
DictSet(items, key, ticker) ==
    IF \E k \in 1..Len(items) : items[k].entity = key
    THEN [k \in 1..Len(items) |->
             IF items[k].entity = key
             THEN [entity |-> key, ticker |-> ticker] ELSE items[k]]
    ELSE Append(items, [entity |-> key, ticker |-> ticker])

RECURSIVE AddPhrases(_, _, _, _)
AddPhrases(items, phrases, i, ticker) ==
    IF i > Len(phrases) THEN items
    ELSE AddPhrases(DictSet(items, Lower(phrases[i]), ticker),
                    phrases, i + 1, ticker)

\* the loop building the reverse lookup at import: names, people, products
\* of each ticker, lowercased; no entry is validated
RECURSIVE BuildEntityToTicker(_, _, _)
BuildEntityToTicker(mappings, i, items) ==
    IF i > Len(mappings) THEN items
    ELSE LET m == mappings[i]
         IN  BuildEntityToTicker(mappings, i + 1,
                 AddPhrases(AddPhrases(AddPhrases(items, m.names, 1, m.ticker),
                                       m.people, 1, m.ticker),
                            m.products, 1, m.ticker))

\* the extraction with the excluded words filtered on the cashtag path too
extract_tickers_ExcludesCashtags(t) ==
    LET cashtags == {m \in Range(CashtagFindIter(t, 1)) :
                        m \in VALID_TICKERS /\ m \notin EXCLUDED_WORDS}
        standalone == {m \in Range(StandaloneFindIter(t, 1)) :
                          m \in VALID_TICKERS /\ m \notin EXCLUDED_WORDS}
        text_lower == Lower(t)
        entities == {e.ticker : e \in {x \in Range(ENTITY_TO_TICKER) :
                                          EntitySearch(x.entity, text_lower)}}
    IN  cashtags \cup standalone \cup entities

extract_tickers(t) ==
    LET cashtags == {m \in Range(CashtagFindIter(t, 1)) : m \in VALID_TICKERS}
        standalone == {m \in Range(StandaloneFindIter(t, 1)) :
                          m \in VALID_TICKERS /\ m \notin EXCLUDED_WORDS}
        text_lower == Lower(t)
        entities == {e.ticker : e \in {x \in Range(ENTITY_TO_TICKER) :
                                          EntitySearch(x.entity, text_lower)}}
    IN  cashtags \cup standalone \cup entities

SeenTickers(results) == {results[k].ticker : k \in 1..Len(results)}

\* the cashtag loop of extract_tickers_with_context
RECURSIVE CashtagPass(_, _, _)
CashtagPass(matches, i, results) ==
    IF i > Len(matches) THEN results
    ELSE LET ticker == matches[i]
         IN  CashtagPass(matches, i + 1,
                 IF ticker \in VALID_TICKERS /\ ticker \notin SeenTickers(results)
                 THEN Append(results, [ticker |-> ticker,
                                       match_type |-> "cashtag"])
                 ELSE results)

\* the standalone loop without the seen_tickers test
RECURSIVE StandalonePass_NoSeen(_, _, _)
StandalonePass_NoSeen(matches, i, results) ==
    IF i > Len(matches) THEN results
    ELSE LET ticker == matches[i]
         IN  StandalonePass_NoSeen(matches, i + 1,
                 IF ticker \in VALID_TICKERS /\ ticker \notin EXCLUDED_WORDS
                 THEN Append(results, [ticker |-> ticker,
                                       match_type |-> "standalone"])
                 ELSE results)

\* the standalone loop of extract_tickers_with_context
RECURSIVE StandalonePass(_, _, _)
StandalonePass(matches, i, results) ==
    IF i > Len(matches) THEN results
    ELSE LET ticker == matches[i]
         IN  StandalonePass(matches, i + 1,
                 IF /\ ticker \in VALID_TICKERS
                    /\ ticker \notin EXCLUDED_WORDS
                    /\ ticker \notin SeenTickers(results)
                 THEN Append(results, [ticker |-> ticker,
                                       match_type |-> "standalone"])
                 ELSE results)

\* the entity loop of extract_tickers_with_context, in dict order
RECURSIVE EntityPass(_, _, _, _)
EntityPass(items, i, text_lower, results) ==
    IF i > Len(items) THEN results
    ELSE LET entity == items[i].entity
             ticker == items[i].ticker
         IN  EntityPass(items, i + 1, text_lower,
                 IF /\ ticker \notin SeenTickers(results)
                    /\ EntitySearch(entity, text_lower)
                 THEN Append(results, [ticker |-> ticker,
                                       match_type |-> "entity",
                                       matched_entity |-> entity])
                 ELSE results)

extract_tickers_with_context(t) ==
    LET cashtags == CashtagPass(CashtagFindIter(t, 1), 1, <<>>)
        standalone == StandalonePass(StandaloneFindIter(t, 1), 1, cashtags)
    IN  EntityPass(ENTITY_TO_TICKER, 1, Lower(t), standalone)

\* the module is imported with one of the lexicons, a text arrives
InitExtract ==
    /\ now = 0
    /\ mentions = <<>>
    /\ half_life = HALF_LIFE_SECONDS
    /\ last_cleanup = 0
    /\ PipelineIdle
    /\ \E mappings \in EntityMappingFiles :
          ENTITY_TO_TICKER = BuildEntityToTicker(mappings, 1, <<>>)
    /\ text \in Texts
    /\ ret = NoCall

ExtractTickers ==
    /\ ret' = [op |-> "extract_tickers", value |-> extract_tickers(text)]
    /\ UNCHANGED <<ENTITY_TO_TICKER, text, seen_ids, outbox, now, calcVars, pipelineVars>>

ExtractTickersWithContext ==
    /\ ret' = [op |-> "extract_tickers_with_context",
               value |-> extract_tickers_with_context(text)]
    /\ UNCHANGED <<ENTITY_TO_TICKER, text, seen_ids, outbox, now, calcVars, pipelineVars>>

NextExtract ==
    \/ ExtractTickers
    \/ ExtractTickersWithContext

SpecExtract == InitExtract /\ [][NextExtract]_vars

-----------------------------------------------------------------------------
(* reddit_stream.poll_new_posts called repeatedly by a caller that keeps one
   seen_ids set *)

\* the submissions reddit holds: three with tickers, one without
Submissions ==
    {[id |-> "p1", subreddit |-> "wallstreetbets", title |-> <<"$", "B">>,
      selftext |-> <<>>, permalink |-> "/comments/p1", created_utc |-> 0],
     [id |-> "p2", subreddit |-> "wallstreetbets", title |-> <<"A", "B">>,
      selftext |-> <<"$", "B">>, permalink |-> "/comments/p2", created_utc |-> 0],
     [id |-> "p3", subreddit |-> "stocks", title |-> <<"a">>,
      selftext |-> <<>>, permalink |-> "/comments/p3", created_utc |-> 0],
     [id |-> "p4", subreddit |-> "options", title |-> <<>>,
      selftext |-> <<"$", "A", "B">>, permalink |-> "/comments/p4",
      created_utc |-> 0]}

DEFAULT_SUBREDDITS == <<"wallstreetbets", "stocks", "options">>

\* the subreddits argument; <<>> stands for None and for an empty list, which
\* "subreddits or DEFAULT_SUBREDDITS" treats alike
SubredditLists == {<<>>, <<"stocks">>, <<"wallstreetbets", "stocks">>}

\* the enumerations of a finite set without repetition
SeqsOf(S) ==
    {q \in [1..Cardinality(S) -> S] : \A i, j \in DOMAIN q : q[i] = q[j] => i = j}

\* what subreddit.new() can yield: the submissions of each subreddit, or
\* some of them, in some order
Listings ==
    {l \in [Range(DEFAULT_SUBREDDITS) ->
               UNION {SeqsOf(S) : S \in SUBSET Submissions}] :
        \A sub \in DOMAIN l : \A i \in DOMAIN l[sub] : l[sub][i].subreddit = sub}

\* the iteration order of the sets extract_tickers returns
TickerOrders == SeqsOf(VALID_TICKERS)

\* subreddit.new(limit=limit) for each name of subreddits, one after another
RECURSIVE Fetched(_, _, _, _)
Fetched(listing, subreddits, limit, k) ==
    IF k > Len(subreddits) THEN <<>>
    ELSE LET new == listing[subreddits[k]]
             head == SubSeq(new, 1, IF Len(new) < limit THEN Len(new) ELSE limit)
         IN  [i \in DOMAIN head |-> [sub_name |-> subreddits[k],
                                     submission |-> head[i]]]
             \o Fetched(listing, subreddits, limit, k + 1)

\* the RedditMention objects appended for one submission
PostMentions(sub_name, submission, tickers, order, compound) ==
    LET text_ == submission.title \o <<" ">> \o submission.selftext
        emitted == SelectSeq(order, LAMBDA ticker : ticker \in tickers)
    IN  [i \in DOMAIN emitted |->
            [ticker |-> emitted[i], source |-> sub_name,
             content_type |-> "post", content |-> text_,
             sentiment |-> compound, permalink |-> submission.permalink,
             created_at |-> submission.created_utc]]

\* the two nested for loops of poll_new_posts over what was fetched
RECURSIVE PollLoop(_, _, _, _, _, _)
PollLoop(fetched, i, seen, acc, order, compound) ==
    IF i > Len(fetched) THEN [seen |-> seen, mentions |-> acc]
    ELSE LET submission == fetched[i].submission
             tickers == extract_tickers(submission.title \o <<" ">>
                                        \o submission.selftext)
         IN  IF submission.id \in seen
             THEN PollLoop(fetched, i + 1, seen, acc, order, compound)
             ELSE PollLoop(fetched, i + 1, seen \cup {submission.id},
                      IF tickers = {} THEN acc
                      ELSE acc \o PostMentions(fetched[i].sub_name, submission,
                                               tickers, order, compound),
                      order, compound)

\* poll_new_posts(subreddits, limit, seen_ids) with given the caller's set:
\* the list returned and the caller's set after the call. "seen_ids or set()"
\* keeps the caller's object only if it is not empty; an empty one is
\* replaced by a new set the caller never sees
poll_new_posts(has_client, listing, subreddits, limit, given, order, compound) ==
    IF ~has_client THEN [value |-> <<>>, given |-> given, fetched |-> <<>>]
    ELSE LET subs == IF subreddits = <<>> THEN DEFAULT_SUBREDDITS ELSE subreddits
             fetched == Fetched(listing, subs, limit, 1)
             local == IF given # {} THEN given ELSE {}
             loop == PollLoop(fetched, 1, local, <<>>, order, compound)
         IN  [value |-> loop.mentions,
              given |-> IF given # {} THEN loop.seen ELSE given,
              fetched |-> [i \in DOMAIN fetched |-> fetched[i].submission.id]]

\* the caller holds a set of its own: empty, or filled by earlier polls
InitPoll ==
    /\ now = 0
    /\ mentions = <<>>
    /\ half_life = HALF_LIFE_SECONDS
    /\ last_cleanup = 0
    /\ pending_mentions = <<>>
    /\ connected_clients = {}
    /\ inflight = None
    /\ stream_state = "running"
    /\ client_pc = [c \in Clients |-> "closed"]
    /\ bl = [pc |-> "sleep"]
    /\ outbox = [c \in Clients |-> <<>>]
    /\ seen_ids \in SUBSET {submission.id : submission \in Submissions}
    /\ ENTITY_TO_TICKER = BuildEntityToTicker(EntityMappingsVetted, 1, <<>>)
    /\ text = <<>>
    /\ ret = NoCall

PollNewPosts(has_client, listing, subreddits, limit, order, compound) ==
    /\ LET result == poll_new_posts(has_client, listing, subreddits, limit,
                                    seen_ids, order, compound)
       IN  /\ seen_ids' = result.given
           /\ ret' = [op |-> "poll_new_posts", fetched |-> result.fetched,
                      value |-> result.value]
    /\ UNCHANGED <<ENTITY_TO_TICKER, text, outbox, now, calcVars, pipelineVars>>

NextPoll ==
    \E has_client \in BOOLEAN, listing \in Listings,
       subreddits \in SubredditLists, limit \in 1..MaxLimit,
       order \in TickerOrders, compound \in AnalyzedSentiments :
         PollNewPosts(has_client, listing, subreddits, limit, order, compound)

SpecPoll == InitPoll /\ [][NextPoll]_vars

-----------------------------------------------------------------------------
(* Properties of the ingestion and broadcast pipeline *)

\* C1: for every mention a stream yields, process_mention runs to
\* completion, leaves exactly one new record in the window and exactly one
\* new entry in the pending batch, carrying the mention's score (0 when the
\* source supplied none).  Stated for calls whose storage write succeeds.
C1_StreamMentionBuffered ==
    [][/\ (inflight = None /\ inflight' # None /\ inflight'.via = "stream") =>
              /\ Len(mentions') = Len(mentions) + 1
              /\ mentions'[Len(mentions')].ticker = inflight'.mention.ticker
       /\ (/\ ret'.op = "process_mention"
           /\ inflight.via = "stream"
           /\ ret'.outcome # "storage_error") =>
              /\ ret'.outcome = "ok"
              /\ Len(pending_mentions') = Len(pending_mentions) + 1
              /\ pending_mentions'[Len(pending_mentions')].ticker =
                     inflight.mention.ticker
              /\ pending_mentions'[Len(pending_mentions')].score =
                     IF HasAttr(inflight.mention, "score")
                     THEN inflight.mention.score ELSE 0]_vars

TickSent == ret.op = "tick" /\ ret.sent

C3_EmptyBatchNoLatest ==
    (TickSent /\ ret.batch = <<>>) =>
        /\ bl.pc = "send"
        /\ bl.message.type = "update"
        /\ ~HasAttr(bl.message.data, "latest")
        /\ DOMAIN bl.message.data = {"heatmap", "stats"}

C3_Witness ==
    /\ TickSent
    /\ ret.batch = <<>>
    /\ bl.pc = "send"
    /\ Len(bl.message.data.heatmap) > 0
    /\ ~HasAttr(bl.message.data, "latest")

-----------------------------------------------------------------------------
(* Vocabulary of the properties of the HypeCalculator *)

RecordsOf(ms, ticker) == {i \in 1..Len(ms) : ms[i].ticker = ticker}

TickersIn(ms) == {ms[i].ticker : i \in 1..Len(ms)}

EntriesOf(scores, ticker) == {k \in 1..Len(scores) : scores[k].ticker = ticker}

\* the hype of ticker in an untruncated snapshot of window ms at instant t,
\* 0 when the snapshot has no entry for it
ReportedHype(ms, t, hl, ticker) ==
    LET scores == get_hype_scores(ms, t, hl, Cardinality(Tickers))
        ks == EntriesOf(scores, ticker)
    IN  IF ks = {} THEN 0 ELSE scores[CHOOSE k \in ks : TRUE].hype

IsSnapshot == ret.op = "get_hype_scores"

\* C4: a snapshot with topN at least the number of distinct tickers has
\* exactly one entry for each ticker that has a record in the window, none
\* for any other ticker, and each entry's mention_count is the number of
\* that ticker's records in the window (at least 1).
C4_SnapshotEntriesMatchWindow ==
    (IsSnapshot /\ ret.top_n >= Cardinality(TickersIn(mentions))) =>
        /\ \A ticker \in Tickers :
              Cardinality(EntriesOf(ret.value, ticker)) =
                  IF RecordsOf(mentions, ticker) # {} THEN 1 ELSE 0
        /\ \A k \in 1..Len(ret.value) :
              /\ ret.value[k].mention_count =
                     Cardinality(RecordsOf(mentions, ret.value[k].ticker))
              /\ ret.value[k].mention_count >= 1

C4_Witness ==
    /\ IsSnapshot
    /\ ret.top_n >= Cardinality(TickersIn(mentions))
    /\ \E k \in 1..Len(ret.value) : ret.value[k].mention_count = 2
    /\ \E ticker \in Tickers : RecordsOf(mentions, ticker) = {}
    /\ \E i \in 1..Len(mentions) : mentions[i].timestamp <= now - FIVE_MINUTES

\* C5: a snapshot has at most topN entries, in non-increasing order of
\* hype, and no ticker left out of it has a strictly greater hype than a
\* ticker in it.
C5_SnapshotIsTopN ==
    IsSnapshot =>
        /\ Len(ret.value) <= ret.top_n
        /\ \A i, j \in 1..Len(ret.value) :
              i < j => ret.value[i].hype >= ret.value[j].hype
        /\ \A ticker \in TickersIn(mentions) :
              EntriesOf(ret.value, ticker) = {} =>
                  \A k \in 1..Len(ret.value) :
                      ReportedHype(mentions, now, half_life, ticker)
                          <= ret.value[k].hype

C5_Witness ==
    /\ IsSnapshot
    /\ ret.top_n = 1
    /\ Len(ret.value) = 1
    /\ \E ticker \in TickersIn(mentions) :
          /\ ticker # ret.value[1].ticker
          /\ ticker = mentions[1].ticker
          /\ ReportedHype(mentions, now, half_life, ticker) < ret.value[1].hype

\* C6: two tickers with identical hype after rounding are listed in ticker
\* lexical order, whatever the order in which their records were added.
C6_TiesInLexicalOrder ==
    IsSnapshot =>
        \A i, j \in 1..Len(ret.value) :
            (i < j /\ ret.value[i].hype = ret.value[j].hype) =>
                TickerRank[ret.value[i].ticker] < TickerRank[ret.value[j].ticker]

\* C7: get_ticker_hype(t) returns None exactly when the window holds no
\* record for t, never a zero-valued score; otherwise its result is the
\* entry for t of an untruncated get_hype_scores at the same instant.
C7_TickerHypeMatchesSnapshot ==
    ret.op = "get_ticker_hype" =>
        LET scores == get_hype_scores(mentions, now, half_life,
                                      Cardinality(Tickers))
        IN  /\ (ret.value = None) <=> (RecordsOf(mentions, ret.ticker) = {})
            /\ ret.value # None =>
                  /\ ret.value.mention_count >= 1
                  /\ \E k \in 1..Len(scores) : scores[k] = ret.value

C7_Witness ==
    /\ ret.op = "get_ticker_hype"
    /\ ret.value # None
    /\ TickersIn(mentions) = Tickers
    /\ mentions[1].ticker # ret.ticker

\* the timestamps of the window span more than the max-age window
SpansMoreThanMaxAge(ms) ==
    \E i, j \in 1..Len(ms) : ms[j].timestamp - ms[i].timestamp > MAX_AGE_MINUTES

LiveRecordsOf(ms, t, ticker) ==
    {i \in RecordsOf(ms, ticker) : t - ms[i].timestamp <= MAX_AGE_MINUTES}

\* C8: once the added records span more than the 60-minute max-age window,
\* a snapshot reflects only records within that window: no record older
\* than 60 minutes is counted in any entry's mention_count.
C8_SnapshotOnlyLiveRecords ==
    (IsSnapshot /\ SpansMoreThanMaxAge(mentions)) =>
        \A k \in 1..Len(ret.value) :
            ret.value[k].mention_count =
                Cardinality(LiveRecordsOf(mentions, now, ret.value[k].ticker))

\* C9: with no add_mention in between, the hype a snapshot reports for a
\* ticker at a later instant is at most the hype reported at the earlier
\* instant, also for records stamped in the past or in the future.
C9_HypeNeverGrows ==
    [][ret'.op = "advance" =>
          \A ticker \in Tickers :
              ReportedHype(mentions', now', half_life', ticker)
                  <= ReportedHype(mentions, now, half_life, ticker)]_vars

C9_Witness ==
    /\ ret.op = "advance"
    /\ \E i \in 1..Len(mentions) : mentions[i].timestamp > ret.from
    /\ \E i \in 1..Len(mentions) : mentions[i].timestamp < ret.from
    /\ \E ticker \in Tickers :
          ReportedHype(mentions, now, half_life, ticker)
              < ReportedHype(mentions, ret.from, half_life, ticker)

\* C10: adding one record stamped at the instant of the call raises the
\* ticker's hype, in a snapshot at that instant, by exactly the record's
\* weight: 1.5 for a post, 1.0 for a comment.
C10_AddRaisesHypeByWeight ==
    [][(ret'.op = "add_mention" /\ ret'.rec.timestamp = now) =>
          ReportedHype(mentions', now', half_life', ret'.rec.ticker) =
              ReportedHype(mentions, now, half_life, ret'.rec.ticker)
              + (IF ret'.rec.content_type = "post" THEN 150 ELSE 100)]_vars

\* C11: for a ticker whose only record has base weight w and timestamp t0,
\* a snapshot taken at t0 + H reports hype w/2 and one taken at t0 + 2H
\* reports w/4, within the tolerance of round(., 2) (0.005), for every
\* half-life H the calculator is built with.
BaseWeightHundredths(rec) ==
    10 * (IF rec.content_type = "post" THEN POST_WEIGHT ELSE COMMENT_WEIGHT)

AbsDiff(a, b) == IF a >= b THEN a - b ELSE b - a

C11_HalfLifeHalves ==
    (ret.op = "get_hype_scores") =>
        \A k \in 1..Len(ret.value) :
            \A i \in RecordsOf(mentions, ret.value[k].ticker) :
                LET age == now - mentions[i].timestamp
                    w == BaseWeightHundredths(mentions[i])
                IN  RecordsOf(mentions, ret.value[k].ticker) = {i} =>
                      /\ age = half_life =>
                            AbsDiff(2 * ret.value[k].hype, w) <= 1
                      /\ age = 2 * half_life =>
                            AbsDiff(4 * ret.value[k].hype, w) <= 2

C11_Witness ==
    /\ ret.op = "get_hype_scores"
    /\ half_life # HALF_LIFE_SECONDS
    /\ \E k \in 1..Len(ret.value) :
          \E i \in RecordsOf(mentions, ret.value[k].ticker) :
              /\ RecordsOf(mentions, ret.value[k].ticker) = {i}
              /\ mentions[i].content_type = "post"
              /\ now - mentions[i].timestamp = 2 * half_life
              /\ ret.value[k].hype = 38

\* a step of BroadcastTick that is not a stuttering step
TickStep == bl.pc = "sleep" /\ ret'.op = "tick" /\ vars' # vars

C13_TickEmptiesBatch ==
    [][/\ TickStep =>
             /\ pending_mentions' = <<>>
             /\ (ret'.sent /\ HasAttr(bl'.message.data, "latest")) =>
                    \E i \in 1..Len(pending_mentions) :
                        pending_mentions[i] = bl'.message.data.latest
       /\ ret'.op = "tick" => pending_mentions' = <<>>
       /\ ~TickStep =>
             /\ Len(pending_mentions') >= Len(pending_mentions)
             /\ SubSeq(pending_mentions', 1, Len(pending_mentions)) =
                    pending_mentions]_vars

C13_Witness ==
    /\ ret.op = "tick"
    /\ ~ret.sent
    /\ ret.batch # <<>>
    /\ pending_mentions = <<>>

\* C17: a broadcast tick leaves the record window unchanged: every ticker
\* has the same number of records after the tick as before it, and the
\* heatmap the tick sends lists every ticker of the window the tick leaves
\* behind, with that number as its mention count.
C17_TickKeepsWindow ==
    /\ [][TickStep =>
              /\ mentions' = mentions
              /\ last_cleanup' = last_cleanup
              /\ \A ticker \in Tickers :
                    Cardinality(RecordsOf(mentions', ticker)) =
                        Cardinality(RecordsOf(mentions, ticker))]_vars
    /\ [](TickSent =>
              /\ \A ticker \in Tickers :
                    RecordsOf(mentions, ticker) # {} =>
                        \E k \in 1..Len(bl.message.data.heatmap) :
                            bl.message.data.heatmap[k].ticker = ticker
              /\ \A k \in 1..Len(bl.message.data.heatmap) :
                    bl.message.data.heatmap[k].mentions =
                        Cardinality(RecordsOf(mentions,
                            bl.message.data.heatmap[k].ticker)))

C17_Witness ==
    /\ TickSent
    /\ ret.batch # <<>>
    /\ Len(bl.message.data.heatmap) = 2
    /\ \E k \in 1..2 : bl.message.data.heatmap[k].mentions =
                           Cardinality(RecordsOf(mentions,
                               bl.message.data.heatmap[k].ticker))

\* C14: when a delivery ends, it has not failed, and every client that was
\* connected when it started has received the update, unless its own send
\* failed or it disconnected meanwhile -- whatever sends failed and whoever
\* connected or disconnected during the delivery.
C14_DeliveryIsolated ==
    (ret.op = "broadcast_update") =>
        /\ ret.outcome = "ok"
        /\ \A c \in ret.start :
              \/ c \in ret.delivered
              \/ c \in ret.failed
              \/ c \notin connected_clients

\* every record of the window is a whole MentionRecord
WindowWhole(ms) ==
    \A i \in 1..Len(ms) :
        /\ DOMAIN ms[i] = {"ticker", "timestamp", "content_type", "sentiment"}
        /\ ms[i].ticker \in Tickers
        /\ ms[i].content_type \in ContentTypes

RECURSIVE SumMentions(_, _)
SumMentions(heatmap, k) ==
    IF k > Len(heatmap) THEN 0
    ELSE heatmap[k].mentions + SumMentions(heatmap, k + 1)

\* C15: cancelling the ingestion task or the broadcast task, wherever it is
\* suspended, leaves the calculator as it was: the window is unchanged and
\* made of whole records, and get_stats, get_hype_scores and add_mention
\* still work on it (the counts agree with the window, a further add
\* appends its record).
C15_CancelKeepsAggregator ==
    /\ [][(ret'.op = "cancel" /\ vars' # vars) =>
              /\ mentions' = mentions
              /\ last_cleanup' = last_cleanup
              /\ half_life' = half_life]_vars
    /\ [](ret.op = "cancel" =>
              /\ WindowWhole(mentions)
              /\ get_stats(mentions, now).total_mentions = Len(mentions)
              /\ SumMentions(Heatmap(get_hype_scores(mentions, now, half_life,
                                                     TOP_N)), 1) = Len(mentions)
              /\ LET rec == MentionRecord("AMD", now, "post", 500)
                     after == add_mention(mentions, last_cleanup, now, rec)
                 IN  after.mentions = Append(mentions, rec))

\* a process_mention cancelled at its storage write: its record is in the
\* window, nothing of it in the batch
C15_Witness ==
    /\ ret.op = "cancel"
    /\ ret.task = "stream"
    /\ stream_state = "cancelled"
    /\ inflight = None
    /\ Len(mentions) > Len(pending_mentions)
    /\ bl.pc # "cancelled"

C18_StatsArePlainCounts ==
    (ret.op = "get_stats") =>
        LET snapshot == Heatmap(get_hype_scores(mentions, now, half_life, TOP_N))
        IN  /\ ret.value.total_mentions = Len(mentions)
            /\ ret.value.unique_tickers = Cardinality(TickersIn(mentions))
            /\ ret.value.unique_tickers = Len(snapshot)
            /\ SumMentions(snapshot, 1) = ret.value.total_mentions
            /\ ret.value.mentions_last_5min <= ret.value.mentions_last_hour
            /\ ret.value.mentions_last_hour <= ret.value.total_mentions

\* two records of one ticker, a post and a comment, one older than an hour
\* and none of the last five minutes
C18_Witness ==
    /\ ret.op = "get_stats"
    /\ ret.value.total_mentions = 2
    /\ ret.value.unique_tickers = 1
    /\ ret.value.mentions_last_hour = 1
    /\ ret.value.mentions_last_5min = 0
    /\ mentions[1].content_type # mentions[2].content_type

-----------------------------------------------------------------------------
(* Properties of the ticker extractor *)

\* sym stands in t at position i, letter for letter
StandsAt(t, i, sym) ==
    /\ i >= 1
    /\ i + Len(sym) - 1 <= Len(t)
    /\ \A k \in 1..Len(sym) : t[i + k - 1] = sym[k]

\* t contains $sym with no word character after it
CashtagOccurs(t, sym) ==
    /\ Len(sym) \in CASHTAG_MIN..CASHTAG_MAX
    /\ \E i \in 1..Len(t) :
          /\ t[i] = "$"
          /\ StandsAt(t, i + 1, sym)
          /\ ~WordAt(t, i + 1 + Len(sym))

\* t contains sym as a whole word (a cashtag's letters are one too)
BareWordOccurs(t, sym) ==
    /\ Len(sym) \in STANDALONE_MIN..STANDALONE_MAX
    /\ \E i \in 1..Len(t) :
          /\ ~WordAt(t, i - 1)
          /\ StandsAt(t, i, sym)
          /\ ~WordAt(t, i + Len(sym))

\* t contains the phrase, in any letter case, as whole words
PhraseOccurs(t, phrase) ==
    \E i \in 1..Len(t) :
        /\ ~WordAt(t, i - 1)
        /\ i + Len(phrase) - 1 <= Len(t)
        /\ \A k \in 1..Len(phrase) : LowerChar(t[i + k - 1]) = phrase[k]
        /\ ~WordAt(t, i + Len(phrase))

ViaEntity(t, sym) ==
    \E e \in Range(ENTITY_TO_TICKER) :
        e.ticker = sym /\ PhraseOccurs(t, e.entity)

IsExtraction == ret.op = "extract_tickers"

\* C19: a symbol that is both a valid ticker and an excluded word is
\* returned when the text has it as a cashtag, and is not returned when the
\* text has it only as a bare uppercase word (no cashtag of it, no entity
\* phrase mapped to it).
C19_ExclusionOnlyStandalone ==
    IsExtraction =>
        \A sym \in VALID_TICKERS \cap EXCLUDED_WORDS :
            /\ CashtagOccurs(text, sym) => sym \in ret.value
            /\ (/\ BareWordOccurs(text, sym)
                /\ ~CashtagOccurs(text, sym)
                /\ ~ViaEntity(text, sym)) => sym \notin ret.value

C19_Witness ==
    /\ IsExtraction
    /\ CashtagOccurs(text, SymBA)
    /\ ~ViaEntity(text, SymBA)
    /\ SymBA \in ret.value

\* C20: the result is exactly the union of the valid cashtag symbols, the
\* valid and not excluded bare uppercase words, and the tickers of the
\* entity phrases found case-insensitively as whole words; it is a set, so
\* a ticker found several ways is in it once; a text without a match, the
\* empty text included, gives the empty set.
C20_ExtractionIsUnion ==
    IsExtraction =>
        /\ ret.value =
               {sym \in VALID_TICKERS : CashtagOccurs(text, sym)}
               \cup {sym \in VALID_TICKERS \ EXCLUDED_WORDS :
                         BareWordOccurs(text, sym)}
               \cup {e.ticker : e \in {x \in Range(ENTITY_TO_TICKER) :
                                          PhraseOccurs(text, x.entity)}}
        /\ text = <<>> => ret.value = {}

\* one ticker found as a bare word and through an entity phrase
C20_Witness ==
    /\ IsExtraction
    /\ BareWordOccurs(text, SymAB)
    /\ PhraseOccurs(text, <<"a", "a">>)
    /\ ret.value = {SymAB}

\* the strategy of highest priority that finds sym in t
BestStrategy(t, sym) ==
    IF sym \in VALID_TICKERS /\ CashtagOccurs(t, sym) THEN "cashtag"
    ELSE IF /\ sym \in VALID_TICKERS \ EXCLUDED_WORDS
            /\ BareWordOccurs(t, sym) THEN "standalone"
    ELSE IF ViaEntity(t, sym) THEN "entity"
    ELSE "none"

\* C21: extract_tickers_with_context reports each ticker at most once,
\* labelled with the strategy of highest priority that finds it (cashtag,
\* then standalone, then entity), and the tickers it reports are the set
\* extract_tickers returns for the same text.
C21_ContextRefinesExtraction ==
    (ret.op = "extract_tickers_with_context") =>
        /\ \A j, k \in 1..Len(ret.value) :
              ret.value[j].ticker = ret.value[k].ticker => j = k
        /\ \A k \in 1..Len(ret.value) :
              ret.value[k].match_type = BestStrategy(text, ret.value[k].ticker)
        /\ SeenTickers(ret.value) = extract_tickers(text)

\* a ticker found by all three strategies and reported as a cashtag
C21_Witness ==
    /\ ret.op = "extract_tickers_with_context"
    /\ \E k \in 1..Len(ret.value) :
          /\ ret.value[k].ticker = SymAB
          /\ ret.value[k].match_type = "cashtag"
    /\ BareWordOccurs(text, SymAB)
    /\ ViaEntity(text, SymAB)

\* C22: every entry of the entity index loaded at import maps to a symbol of
\* VALID_TICKERS (a mapping to another symbol is rejected by the load), and
\* every ticker extract_tickers returns is in VALID_TICKERS.
C22_OnlyValidTickers ==
    IsExtraction =>
        /\ \A e \in Range(ENTITY_TO_TICKER) : e.ticker \in VALID_TICKERS
        /\ ret.value \subseteq VALID_TICKERS

InRange(sentiment) == SENTIMENT_MIN <= sentiment /\ sentiment <= SENTIMENT_MAX

\* C23: an add_mention whose sentiment lies outside [-1, 1] adds nothing:
\* the window is as it was, and so is every avg_sentiment of the snapshot.
C23_OutOfRangeSentimentRejected ==
    [][(/\ ret'.op = "add_mention"
        /\ vars' # vars
        /\ ~InRange(ret'.rec.sentiment)) =>
          /\ mentions' = mentions
          /\ get_hype_scores(mentions', now', half_life', TOP_N) =
                 get_hype_scores(mentions, now, half_life, TOP_N)]_vars

\* C24: add_mention appends the record; if more than 300 seconds have passed
\* since the last prune, the window becomes the appended window without the
\* records (the new one included) that are not newer than now minus 60
\* minutes, and the last prune is now; otherwise the window is the previous
\* one followed by the new record and the last prune is unchanged.
C24_AppendThenPrune ==
    [][(ret'.op = "add_mention" /\ vars' # vars) =>
          LET appended == mentions \o <<ret'.rec>>
              stale(m) == m.timestamp <= now - MAX_AGE_MINUTES
          IN  IF now - last_cleanup > CLEANUP_INTERVAL
              THEN /\ mentions' = SelectSeq(appended, LAMBDA m : ~stale(m))
                   /\ last_cleanup' = now
              ELSE /\ mentions' = appended
                   /\ last_cleanup' = last_cleanup]_vars

\* a prune has just removed the record that the call itself added
C24_Witness ==
    /\ ret.op = "add_mention"
    /\ ret.rec.timestamp <= now - MAX_AGE_MINUTES
    /\ last_cleanup = now
    /\ \A i \in 1..Len(mentions) : mentions[i] # ret.rec

\* the record add_mention builds from a mention handed to process_mention
RecordOf(mention) ==
    MentionRecord(mention.ticker, mention.created_at, mention.content_type,
                  mention.sentiment)

InBatch(batch, mention) ==
    \E i \in 1..Len(batch) :
        /\ batch[i].ticker = mention.ticker
        /\ batch[i].timestamp = mention.created_at
        /\ batch[i].content_type = mention.content_type
        /\ batch[i].sentiment = mention.sentiment

\* C25: at a tick with a listener connected, a mention whose record was added
\* to the window since the previous tick (here: by the step just before the
\* tick) and is in the window the heatmap is computed from, is in the batch
\* the tick selects from.
C25_HeatmapAndFeedSynchronized ==
    [][(/\ TickStep
        /\ connected_clients # {}
        /\ ret.op = "await_storage"
        /\ \E i \in 1..Len(mentions) : mentions[i] = RecordOf(inflight.mention)) =>
          InBatch(ret'.batch, inflight.mention)]_vars

\* C26: when process_mention fails (the storage write raises, or the mention
\* lacks a field), the mention is neither in the window nor in the batch.
C26_FailedMentionLeavesNoTrace ==
    [][(/\ ret'.op = "process_mention"
        /\ ret'.outcome # "ok"
        /\ vars' # vars) =>
          /\ \A i \in 1..Len(mentions') :
                mentions'[i] # RecordOf(inflight.mention)
          /\ ~InBatch(pending_mentions', inflight.mention)]_vars

\* C27: a failure while processing a mention does not end ingestion: the
\* stream that was running before the failed call is still running after it,
\* so that it can yield and process later mentions.
C27_FailureKeepsStreamRunning ==
    [][(/\ ret'.op = "process_mention"
        /\ ret'.outcome # "ok"
        /\ vars' # vars
        /\ stream_state = "running") =>
          stream_state' = "running"]_vars

\* C28: the broadcast loop, never cancelled here, does not stop by itself
\* whatever the listeners do: it is always either sleeping until its next
\* tick or delivering the update of the current one.
C28_LoopNeverStops == bl.pc \in {"sleep", "send"}

\* C29: a connected listener has been sent exactly one init message, it is the
\* first message of its connection (no update comes before it), and the init
\* message holds the heatmap and stats of the moment and no featured mention.
C29_InitComesFirst ==
    /\ \A c \in Clients :
          client_pc[c] # "closed" =>
            /\ outbox[c] # <<>>
            /\ outbox[c][1] = "init"
            /\ \A k \in 2..Len(outbox[c]) : outbox[c][k] = "update"
    /\ ret.op = "init" =>
          /\ ret.message.type = "init"
          /\ DOMAIN ret.message.data = {"heatmap", "stats"}
          /\ ret.message.data.heatmap =
                Heatmap(get_hype_scores(mentions, now, half_life, TOP_N))
          /\ ret.message.data.stats = get_stats(mentions, now)

\* an update is sent to a client whose init send has not returned yet
C29_Witness ==
    \E c \in Clients :
        /\ client_pc[c] = "init"
        /\ outbox[c] = <<"init", "update">>
        /\ bl.pc = "send" /\ bl.cur = c

PermalinksOf(value) == {value[i].permalink : i \in 1..Len(value)}

IdsOf(value) ==
    {submission.id : submission \in
        {sm \in Submissions : sm.permalink \in PermalinksOf(value)}}

\* C30: poll_new_posts returns no mention for a submission whose id is in the
\* seen_ids set it is given, leaves in that same set the id of every
\* submission it fetched, and so two polls in a row with one set return no
\* mentions for the same submission.
C30_PollingNeverRepeats ==
    [][(ret'.op = "poll_new_posts" /\ vars' # vars) =>
          /\ IdsOf(ret'.value) \cap seen_ids = {}
          /\ Range(ret'.fetched) \subseteq seen_ids'
          /\ ret.op = "poll_new_posts" =>
                IdsOf(ret.value) \cap IdsOf(ret'.value) = {}]_vars

====
